---- MODULE Spec2Model ----
(***************************************************************************)
(* Ezee-money: a browser-only data collection application that uses the    *)
(* GitHub contents API as its database.  This module models                *)
(*   - DataSyncService (js/github-service.js): the subscriber list, the    *)
(*     change check over data.json / agents.json and the polling chain;    *)
(*   - the write paths (token fetch followed by a PUT) of GitHubService,   *)
(*     DataSyncService, RealTimeService, ConfigManager and                 *)
(*     EnhancedSubmissionHandler, and the image uploads;                   *)
(*   - the field-agent pages: ConfigManager.loadConfig,                    *)
(*     FieldAgentLoginHandler.authenticate and the login form handler.     *)
(*   - RealTimeService (js/real-time-service.js): hasRepositoryChanged,    *)
(*     its poll chain, and the commits its saveFile / uploadImage make.    *)
(* The GitHub server is modelled by what the code reads from its           *)
(* responses: a file has a content and a blob SHA that is a function of    *)
(* the content; a PUT is accepted only when it carries the SHA of the      *)
(* file as it is stored at that moment.                                    *)
(***************************************************************************)
EXTENDS Integers, Sequences, FiniteSets, TLC

\* ------------------------------------------------------------------ bounds
MaxContent == 2     \* distinct contents a polled file can take
MaxChains  == 2     \* polling chains that may be alive at once
MaxRegs    == 3     \* subscribe calls made on one DataSyncService
MaxCalls   == 1     \* operations each client starts
MaxTime    == 2     \* distinct values Date.now() takes
MaxImages  == 1     \* images one submission carries
MaxAgents  == 2     \* agent records in agents.json
MaxCommits == 3     \* commits made to the branch

\* --------------------------------------------------------------- constants
Callbacks    == {"cbA", "cbB"}
TrackedFiles == <<"data.json", "agents.json">>
Chains       == 1..MaxChains
Clients      == {"a", "b"}
JsonFiles    == {"submissions.json", "data.json", "agents.json", "gitconfig.json"}
ImageKeys    == <<"idFront", "idBack", "agentPhoto">>

\* The absent SHA (null in the code) and the absent body (null).
Null     == << >>
NullBody == 0

\* The blob SHA the contents API reports for a file: a function of the
\* content, never equal to null.
BlobSha(content) == <<content>>

VARIABLES
    \* ---- the repository as DataSyncService polls it
    repo,            \* [file -> 0..MaxContent], 0: the file does not exist
    \* ---- one DataSyncService instance
    token,           \* this.token is set
    isPolling,       \* this.isPolling
    lastKnownState,  \* this.lastKnownState: [file -> SHA or Null]
    subscribers,     \* this.subscribers: sequence of [cb, reg]
    nextReg,         \* number of subscribe calls made so far (ghost)
    removedCb,       \* callbacks with a registration already removed (ghost)
    timers,          \* [chain -> pending setTimeout(poll) callbacks]
    rounds,          \* [chain -> sequence of in-flight checkForChanges rounds]
    ev,              \* the last step taken and what it did (history)
    \* ---- the repository as the writers see it, and the writing clients
    files,           \* [JSON file -> [exists, subs, total]]
    images,          \* paths of the image files stored in the repository
    cl,              \* [client -> the operation it runs and its locals]
    succeeded,       \* submissions whose save returned success (history)
    uploaded,        \* image writes accepted: [path, id, op] (history)
    wev,             \* the last response a writer handled (history)
    \* ---- the field-agent pages (login.html, submit.html) in one browser
    configFile,      \* gitconfig.json in the repository: [exists, token]
    agentsFile,      \* agents.json in the repository: [exists, agents]
    ls,              \* the agent browser's localStorage
    page,            \* what the agent page is waiting for, and its locals
    auth,            \* the last result of authenticate (history)
    returnedAgents,  \* every record authenticate has returned (history)
    \* ---- one RealTimeService instance and the branch it watches
    rtHead,          \* the branch head: number of the latest commit, 0 at first
    rtOwn,           \* the commits this instance made (ghost)
    rtKnown,         \* this.lastKnownHash: Null or the SHA of a commit
    rtPolling,       \* this.isPolling
    rtPoll,          \* where the poll chain stands
    rtWrite,         \* the write this instance has in flight
    rtEv             \* the last step of the instance (history)

syncVars == <<repo, token, isPolling, lastKnownState, subscribers, nextReg,
              removedCb, timers, rounds, ev>>

writeVars == <<files, images, cl, succeeded, uploaded, wev>>

agentVars == <<configFile, agentsFile, ls, page, auth, returnedAgents>>

rtVars == <<rtHead, rtOwn, rtKnown, rtPolling, rtPoll, rtWrite, rtEv>>

\* what the actions of one part leave alone
notSyncVars  == <<writeVars, agentVars, rtVars>>
notWriteVars == <<syncVars, agentVars, rtVars>>
notAgentVars == <<syncVars, writeVars, rtVars>>
notRTVars    == <<syncVars, writeVars, agentVars>>

vars == <<syncVars, writeVars, agentVars, rtVars>>

\* ------------------------------------------------------------ DataSyncService

\* The tag notifySubscribers is called with for each tracked file.
TagOf(file) == IF file = "data.json" THEN "submissions_updated" ELSE "agents_updated"

NoEvent == [op |-> "none", chain |-> 0, file |-> "", sha |-> Null, old |-> Null,
            body |-> NullBody, calls |-> << >>, threw |-> {}, reg |-> 0]

Event(op, chain, file, sha, old, body, calls) ==
    [op |-> op, chain |-> chain, file |-> file, sha |-> sha, old |-> old,
     body |-> body, calls |-> calls, threw |-> {}, reg |-> 0]

\* A subscribe that puts the new callback first (unshift instead of push).
SubscribeUnshift(subs, entry) == <<entry>> \o subs

\* subscribe(callback): this.subscribers.push(callback)
SubscribePush(subs, entry) == Append(subs, entry)

\* the function subscribe returns: this.subscribers.filter(sub => sub !== callback)
UnsubscribeFilter(subs, cb) == SelectSeq(subs, LAMBDA s : s.cb # cb)

\* A notifySubscribers that stops after the first callback.
NotifyFirstOnly(subs, data, type) ==
    [i \in 1..(IF Len(subs) > 0 THEN 1 ELSE 0) |->
        [cb |-> subs[i].cb, reg |-> subs[i].reg, data |-> data, type |-> type]]

\* notifySubscribers(data, type): forEach over this.subscribers, each callback
\* called with (data, type); a throwing callback is caught and logged.
NotifyCalls(subs, data, type) ==
    [i \in 1..Len(subs) |-> [cb |-> subs[i].cb, reg |-> subs[i].reg,
                             data |-> data, type |-> type]]

\* A forEach body without try / catch: the first callback that throws ends
\* the loop and the exception leaves notifySubscribers.
NotifyUncaught(calls, thr) ==
    LET bad == {i \in 1..Len(calls) : calls[i].cb \in thr} IN
    IF bad = {} THEN [calls |-> calls, error |-> FALSE]
    ELSE [calls |-> SubSeq(calls, 1, CHOOSE i \in bad : \A j \in bad : i <= j),
          error |-> TRUE]

\* notifySubscribers with the callbacks in thr throwing: each call sits in its
\* own try / catch, so every callback is called and nothing propagates.
NotifyCaught(calls, thr) == [calls |-> calls, error |-> FALSE]

\* getFileSHA: data.sha when the response is ok, null otherwise.
GetFileSHA(file, ok) ==
    IF ok /\ repo[file] # 0 THEN BlobSha(repo[file]) ELSE Null

\* getFileContent: the parsed body when the response is ok, null otherwise.
GetFileContent(file, ok) ==
    IF ok /\ repo[file] # 0 THEN repo[file] ELSE NullBody

\* A change test without the null test on the fetched SHA.
ShaDiffers(sha, known) == sha # known

\* A change test that ignores the last-seen SHA.
ShaPresent(sha, known) == sha # Null

\* checkForChanges: the test guarding the body fetch and the notification.
ShaChanged(sha, known) == sha # Null /\ sha # known

\* A poll that arms the timer before awaiting the check (an interval timer).
PollSchedulesBefore == "before"

\* poll: where setTimeout(poll, pollingInterval) is called, "after" the
\* awaited checkForChanges.
PollSchedulesAt == "after"

RemoveAt(s, i) == [j \in 1..(Len(s) - 1) |-> IF j < i THEN s[j] ELSE s[j + 1]]

NewRound == [pc |-> "sha", file |-> 1, sha |-> Null, old |-> Null]

AliveChain(c) == timers[c] > 0 \/ Len(rounds[c]) > 0

\* A round begins: poll() found isPolling true and called checkForChanges,
\* which runs to its first await.
BeginRound(ts, rs, c) ==
    /\ rounds' = [rs EXCEPT ![c] = Append(@, NewRound)]
    /\ timers' = IF PollSchedulesAt = "before" THEN [ts EXCEPT ![c] = @ + 1] ELSE ts

\* Round i of chain c moves past its current file; after agents.json the
\* round is complete and poll schedules the next one.
Advance(c, i) ==
    LET r == rounds[c][i] IN
    IF r.file < Len(TrackedFiles)
    THEN /\ rounds' = [rounds EXCEPT ![c][i] =
                          [pc |-> "sha", file |-> r.file + 1, sha |-> Null, old |-> Null]]
         /\ UNCHANGED timers
    ELSE /\ rounds' = [rounds EXCEPT ![c] = RemoveAt(@, i)]
         /\ timers' = IF PollSchedulesAt = "after"
                      THEN [timers EXCEPT ![c] = @ + 1] ELSE timers

\* An exception inside checkForChanges is caught at its end: the round is
\* over and poll schedules the next one.
Abort(c, i) ==
    /\ rounds' = [rounds EXCEPT ![c] = RemoveAt(@, i)]
    /\ timers' = IF PollSchedulesAt = "after"
                 THEN [timers EXCEPT ![c] = @ + 1] ELSE timers

\* init(token)
SyncInit ==
    /\ ~token
    /\ token' = TRUE
    /\ ev' = Event("init", 0, "", Null, Null, NullBody, << >>)
    /\ UNCHANGED <<repo, isPolling, lastKnownState, subscribers, nextReg, removedCb, timers, rounds>>
    /\ UNCHANGED notSyncVars

Subscribe(cb) ==
    /\ nextReg < MaxRegs
    /\ subscribers' = SubscribePush(subscribers, [cb |-> cb, reg |-> nextReg + 1])
    /\ nextReg' = nextReg + 1
    /\ ev' = Event("subscribe", 0, "", Null, Null, NullBody, << >>)
    /\ UNCHANGED <<repo, token, isPolling, lastKnownState, removedCb, timers, rounds>>
    /\ UNCHANGED notSyncVars

\* The registrations of cb whose returned function can be called: those in
\* the list, and 0 for one that was removed earlier.
Closures(cb) ==
    {subscribers[k].reg : k \in {j \in 1..Len(subscribers) : subscribers[j].cb = cb}}
        \cup (IF cb \in removedCb THEN {0} ELSE {})

\* Calling the function that a subscribe(cb) call returned earlier (any
\* number of times); r is the registration that call made.
Unsubscribe(cb) ==
    \E r \in Closures(cb) :
    /\ subscribers' = UnsubscribeFilter(subscribers, cb)
    /\ removedCb' = IF r # 0 THEN removedCb \cup {cb} ELSE removedCb
    /\ ev' = [Event("unsubscribe", 0, "", Null, Null, NullBody, << >>)
                EXCEPT !.reg = r]
    /\ UNCHANGED <<repo, token, isPolling, lastKnownState, nextReg, timers, rounds>>
    /\ UNCHANGED notSyncVars

StartPolling(c) ==
    /\ ~isPolling /\ token
    /\ ~AliveChain(c)
    /\ \A d \in Chains : d < c => AliveChain(d)
    /\ isPolling' = TRUE
    /\ BeginRound(timers, rounds, c)
    /\ ev' = Event("startPolling", c, "", Null, Null, NullBody, << >>)
    /\ UNCHANGED <<repo, token, lastKnownState, subscribers, nextReg, removedCb>>
    /\ UNCHANGED notSyncVars

StopPolling ==
    /\ isPolling
    /\ isPolling' = FALSE
    /\ ev' = Event("stopPolling", 0, "", Null, Null, NullBody, << >>)
    /\ UNCHANGED <<repo, token, lastKnownState, subscribers, nextReg, removedCb, timers, rounds>>
    /\ UNCHANGED notSyncVars

\* A poll() without the isPolling test at its head.
TimerFireAlways(c) ==
    /\ timers[c] > 0
    /\ BeginRound([timers EXCEPT ![c] = @ - 1], rounds, c)
    /\ ev' = Event("poll", c, "", Null, Null, NullBody, << >>)
    /\ UNCHANGED <<repo, token, isPolling, lastKnownState, subscribers, nextReg, removedCb>>
    /\ UNCHANGED notSyncVars

\* A pending timer of chain c fires and runs poll().
TimerFire(c) ==
    /\ timers[c] > 0
    /\ IF isPolling
       THEN BeginRound([timers EXCEPT ![c] = @ - 1], rounds, c)
       ELSE /\ timers' = [timers EXCEPT ![c] = @ - 1]
            /\ UNCHANGED rounds
    /\ ev' = Event(IF isPolling THEN "poll" ELSE "pollStopped", c, "", Null, Null,
                   NullBody, << >>)
    /\ UNCHANGED <<repo, token, isPolling, lastKnownState, subscribers, nextReg, removedCb>>
    /\ UNCHANGED notSyncVars

\* The awaited getFileSHA of round i of chain c resolves.
ShaResponse(c, i, ok) ==
    /\ i \in 1..Len(rounds[c])
    /\ rounds[c][i].pc = "sha"
    /\ LET r    == rounds[c][i]
           file == TrackedFiles[r.file]
           sha  == GetFileSHA(file, ok)
           old  == lastKnownState[file]
       IN  /\ ev' = Event("sha", c, file, sha, old, NullBody, << >>)
           /\ IF ShaChanged(sha, old)
              THEN /\ lastKnownState' = [lastKnownState EXCEPT ![file] = sha]
                   /\ rounds' = [rounds EXCEPT ![c][i] =
                                    [pc |-> "body", file |-> r.file, sha |-> sha, old |-> old]]
                   /\ UNCHANGED timers
              ELSE /\ UNCHANGED lastKnownState
                   /\ Advance(c, i)
    /\ UNCHANGED <<repo, token, isPolling, subscribers, nextReg, removedCb>>
    /\ UNCHANGED notSyncVars

\* A checkForChanges that, when the body fetch fails, puts the last-seen SHA
\* back and notifies nobody, so that a later poll delivers the change.
BodyResponseRollback(c, i, ok) ==
    /\ i \in 1..Len(rounds[c])
    /\ rounds[c][i].pc = "body"
    /\ LET r    == rounds[c][i]
           file == TrackedFiles[r.file]
           body == GetFileContent(file, ok)
       IN  /\ ev' = Event(IF body = NullBody THEN "bodyFailed" ELSE "notify", c, file,
                          r.sha, r.old, body,
                          IF body = NullBody THEN << >>
                          ELSE NotifyCalls(subscribers, body, TagOf(file)))
           /\ lastKnownState' = IF body = NullBody
                                THEN [lastKnownState EXCEPT ![file] = r.old]
                                ELSE lastKnownState
           /\ Advance(c, i)
    /\ UNCHANGED <<repo, token, isPolling, subscribers, nextReg, removedCb>>
    /\ UNCHANGED notSyncVars

\* The awaited getFileContent resolves and notifySubscribers runs.
BodyResponse(c, i, ok) ==
    /\ i \in 1..Len(rounds[c])
    /\ rounds[c][i].pc = "body"
    /\ LET r    == rounds[c][i]
           file == TrackedFiles[r.file]
           body == GetFileContent(file, ok)
       IN  \E thr \in SUBSET {subscribers[k].cb : k \in 1..Len(subscribers)} :
             LET res == NotifyCaught(NotifyCalls(subscribers, body, TagOf(file)), thr)
             IN  /\ ev' = [Event("notify", c, file, r.sha, r.old, body, res.calls)
                              EXCEPT !.threw = thr]
                 /\ IF res.error THEN Abort(c, i) ELSE Advance(c, i)
    /\ UNCHANGED <<repo, token, isPolling, lastKnownState, subscribers, nextReg, removedCb>>
    /\ UNCHANGED notSyncVars

\* EnhancedAdminDashboard.init with a token in the configuration: init(token),
\* subscribe(the dashboard's callback), startPolling(), with no await between.
DashboardInit(cb) ==
    /\ ~token /\ ~isPolling /\ nextReg < MaxRegs
    /\ token' = TRUE
    /\ subscribers' = SubscribePush(subscribers, [cb |-> cb, reg |-> nextReg + 1])
    /\ nextReg' = nextReg + 1
    /\ isPolling' = TRUE
    /\ BeginRound(timers, rounds, 1)
    /\ ev' = Event("dashboardInit", 1, "", Null, Null, NullBody, << >>)
    /\ UNCHANGED <<repo, lastKnownState, removedCb>>
    /\ UNCHANGED notSyncVars

\* Another client commits a new version of a tracked file, or deletes it.
RemoteChange(file, content) ==
    /\ repo[file] # content
    /\ repo' = [repo EXCEPT ![file] = content]
    /\ ev' = Event("remote", 0, file, Null, Null, NullBody, << >>)
    /\ UNCHANGED <<token, isPolling, lastKnownState, subscribers, nextReg, removedCb, timers, rounds>>
    /\ UNCHANGED notSyncVars

\* ---------------------------------------------------------------- the writers

EmptyList  == [subs |-> << >>, total |-> -1]
AbsentFile == [exists |-> FALSE, subs |-> << >>, total |-> -1]
NoGet      == [file |-> "", sha |-> Null]
\* idFrontUrl, idBackUrl and agentPhotoUrl of a record that has no image URL.
NoUrls     == [k \in {ImageKeys[i] : i \in 1..Len(ImageKeys)} |-> ""]
NoSub      == [id |-> "", by |-> "", urls |-> NoUrls]

IdleClient ==
    [op |-> "none", pc |-> "idle", file |-> "", path |-> "", sha |-> Null,
     sent |-> Null, got |-> NoGet, list |-> EmptyList, sub |-> NoSub, ts |-> 0,
     imgs |-> << >>, hasId |-> TRUE, puts |-> 0, outcome |-> "none", calls |-> 0,
     wrote |-> FALSE, btnDisabled |-> FALSE, dialog |-> "",
     tried |-> << >>, imageUrls |-> << >>]

\* The SHA the contents API reports for a stored JSON file / image.
FileSha(f)     == IF files[f].exists THEN BlobSha(<<files[f].subs, files[f].total>>) ELSE Null
ImageSha(path) == IF path \in images THEN BlobSha(path) ELSE Null

\* The server's answer to a PUT: the write lands only when the request gets
\* through and carries the SHA of what is stored (none for a new file).
PutAccepted(stored, sent, ok) == ok /\ sent = stored

\* GitHubService.saveSubmission: id: Date.now().toString()
GHId(ts) == ToString(ts)

\* EnhancedSubmissionHandler.handleSubmission:
\* 'AGENT-' + Date.now() + '-' + Math.random().toString(36).substr(2, 3)
ESHId(ts, rnd) == "AGENT-" \o ToString(ts) \o "-" \o rnd

\* The id a caller of RealTimeService.submitAgentData put in submission.id.
CallerId(c) == "S-" \o c

\* GitHubService.uploadSubmissionImages:
\* `images/submissions/${submissionId}` + `/${key}_${Date.now()}.jpg`
GHImagePath(id, key, ts) ==
    "images/submissions/" \o id \o "/" \o key \o "_" \o ToString(ts) \o ".jpg"

\* EnhancedSubmissionHandler.uploadImages: `images/${submissionId}_${key}_${timestamp}.jpg`
ESHImagePath(id, key, ts) ==
    "images/" \o id \o "_" \o key \o "_" \o ToString(ts) \o ".jpg"

\* RealTimeService.submitAgentData: `id-front-${timestamp}.jpg` and so on, put
\* by uploadImage under its default folder: `${folder}/${fileName}`.
RTImagePath(key, ts) ==
    "images" \o "/" \o
    (CASE key = "idFront" -> "id-front" [] key = "idBack" -> "id-back"
       [] OTHER -> "agent-photo") \o "-" \o ToString(ts) \o ".jpg"

ImagePathOf(op, id, key, ts) ==
    CASE op = "uploadSubmissionImages" -> GHImagePath(id, key, ts)
      [] op = "handleSubmission"       -> ESHImagePath(id, key, ts)
      [] OTHER                         -> RTImagePath(key, ts)

\* EnhancedSubmissionHandler.uploadImages:
\* `https://raw.githubusercontent.com/BarasaGodwilTech/Ezee-money/main/${filename}`
RawUrl(path) == "https://raw.githubusercontent.com/BarasaGodwilTech/Ezee-money/main/" \o path

\* handleSubmission: submission.idFrontUrl = imageUrls.idFront || '' and so on;
\* imageUrls has a key only for the images whose upload succeeded.
UrlFields(imageUrls) ==
    [k \in DOMAIN NoUrls |-> IF k \in DOMAIN imageUrls THEN imageUrls[k] ELSE ""]

\* Every caller gives up at the first image that fails to upload.
ImageFailureAbortsAlways(op) == TRUE

\* RealTimeService.uploadImage rethrows and submitAgentData with it; the loops
\* of uploadImages and uploadSubmissionImages catch the failure and go on.
ImageFailureAborts(op) == op = "submitAgentData"

\* A PUT that never carries a SHA.
PutWithoutToken(sha) == Null

\* The sha field of the PUT body in uploadFile, saveFileContent, saveFile,
\* saveConfig and saveToDataFile: the local sha the fetch filled in.
JsonPutToken(sha) == sha

\* RealTimeService.uploadImage and EnhancedSubmissionHandler.uploadImages build
\* the PUT body without a sha field.
DirectImagePutToken == Null

\* A writer that fetches the token again and repeats the PUT.
PutRejectedRetries == "retry"

\* What every writer does when the PUT is not ok: throw.
OnPutRejected == "throw"

\* A handleSubmit whose catch block leaves the submit button disabled.
HandleSubmitNoReset(outcome) ==
    [dialog      |-> IF outcome = "thrown" THEN "error" ELSE "success",
     btnDisabled |-> outcome = "thrown"]

\* window.handleSubmit after handleSubmission settled: showSuccess on a
\* result, alert('Error: ...') in the catch block; both re-enable the button.
HandleSubmitEnd(outcome) ==
    [dialog      |-> IF outcome = "thrown" THEN "error" ELSE "success",
     btnDisabled |-> FALSE]

\* The call returns or throws to its caller.
Finish(rec, outcome) ==
    LET ui == IF rec.op = "handleSubmission" THEN HandleSubmitEnd(outcome)
              ELSE [dialog |-> "", btnDisabled |-> FALSE]
    IN  [IdleClient EXCEPT !.op = rec.op, !.sub = rec.sub, !.puts = rec.puts,
                           !.outcome = outcome, !.calls = rec.calls,
                           !.wrote = rec.wrote, !.tried = rec.tried,
                           !.imageUrls = rec.imageUrls,
                           !.dialog = ui.dialog, !.btnDisabled = ui.btnDisabled]

\* What follows the image uploads of an operation.
AfterImages(rec) ==
    CASE rec.op = "uploadSubmissionImages" -> Finish(rec, "success")
      [] rec.op = "submitAgentData" ->
            \* id: submission.id || `SUB-${timestamp}`: timestamp is out of scope
            IF rec.hasId
            THEN [rec EXCEPT !.pc = "read", !.file = "submissions.json", !.got = NoGet,
                             !.puts = 0]
            ELSE Finish(rec, "thrown")
      [] OTHER -> [rec EXCEPT !.pc = "token", !.file = "data.json", !.got = NoGet,
                             !.puts = 0, !.sub.urls = UrlFields(rec.imageUrls)]

\* The upload of the next image begins, or the images are done.
NextImage(rec) ==
    IF rec.imgs = << >> THEN AfterImages(rec)
    ELSE LET direct == rec.op # "uploadSubmissionImages" IN
         [rec EXCEPT !.path = ImagePathOf(rec.op, rec.sub.id, Head(rec.imgs), rec.ts),
                     !.pc   = IF direct THEN "imgPut" ELSE "imgToken",
                     !.sent = IF direct THEN DirectImagePutToken ELSE Null,
                     !.puts = IF direct THEN 1 ELSE 0,
                     !.got  = NoGet]

WriteEvent(op, c, file, accepted, stale, puts, before) ==
    [op |-> op, client |-> c, file |-> file, accepted |-> accepted, stale |-> stale,
     puts |-> puts, before |-> before]

\* A client calls one of the operations that write to the repository.
Begin(c, op, ts, n, flag, rnd) ==
    /\ cl[c].pc = "idle" /\ cl[c].calls < MaxCalls
    /\ LET base == [IdleClient EXCEPT !.op = op, !.ts = ts, !.calls = cl[c].calls + 1,
                                      !.imgs = SubSeq(ImageKeys, 1, n),
                                      \* handleSubmit: submitBtn.disabled = true
                                      !.btnDisabled = (op = "handleSubmission")]
           new  == [id |-> GHId(ts), by |-> c, urls |-> NoUrls]
       IN  cl' = [cl EXCEPT ![c] =
             CASE op = "saveSubmission" ->
                    [base EXCEPT !.sub = new, !.pc = "read", !.file = "submissions.json"]
               [] op = "uploadSubmissionImages" ->
                    NextImage([base EXCEPT !.sub = new])
               [] op = "submitAgentData" ->
                    NextImage([base EXCEPT !.hasId = flag,
                        !.sub = [id |-> IF flag THEN CallerId(c) ELSE "", by |-> c,
                                 urls |-> NoUrls]])
               [] op = "handleSubmission" ->
                    \* no token in the configuration, or validateFormData throws
                    IF ~flag THEN Finish(base, "thrown")
                    ELSE NextImage([base EXCEPT !.sub = [id |-> ESHId(ts, rnd), by |-> c,
                                                         urls |-> NoUrls]])
               [] op = "saveFileContent" ->
                    [base EXCEPT !.pc = "token", !.file = "agents.json",
                                 !.list = [subs |-> <<new>>, total |-> 1]]
               [] OTHER ->
                    [base EXCEPT !.pc = "token", !.file = "gitconfig.json",
                                 !.list = [subs |-> <<new>>, total |-> -1]]]
    /\ wev' = WriteEvent("begin", c, "", FALSE, FALSE, 0, AbsentFile)
    /\ UNCHANGED <<files, images, succeeded, uploaded>>
    /\ UNCHANGED notWriteVars

\* readFile('submissions.json') / getFile('submissions.json') settles and the
\* new submission is appended to what was read.
ReadResponse(c, ok) ==
    /\ cl[c].pc = "read"
    /\ LET rec    == cl[c]
           stored == files[rec.file]
           found  == ok /\ stored.exists
           list   == IF rec.op = "saveSubmission"
                     THEN LET subs == Append(IF found THEN stored.subs ELSE << >>, rec.sub)
                          IN  [subs |-> subs, total |-> Len(subs)]
                     ELSE LET obj == IF found
                                     THEN [subs |-> stored.subs, total |-> stored.total]
                                     ELSE EmptyList
                          IN  [obj EXCEPT !.subs = Append(@, rec.sub)]
       IN  cl' = [cl EXCEPT ![c] = [rec EXCEPT !.list = list, !.pc = "token", !.got = NoGet]]
    /\ wev' = WriteEvent("read", c, cl[c].file, FALSE, FALSE, 0, files[cl[c].file])
    /\ UNCHANGED <<files, images, succeeded, uploaded>>
    /\ UNCHANGED notWriteVars

\* The GET that precedes the PUT of a JSON file settles and the PUT is sent.
TokenResponse(c, resp) ==
    /\ cl[c].pc = "token"
    /\ LET rec    == cl[c]
           stored == files[rec.file]
           found  == resp = "ok" /\ stored.exists
           sha    == IF found THEN FileSha(rec.file) ELSE Null
           sent   == [rec EXCEPT !.sha = sha, !.got = [file |-> rec.file, sha |-> sha],
                                 !.sent = JsonPutToken(sha), !.pc = "put",
                                 !.puts = rec.puts + 1]
       IN  cl' = [cl EXCEPT ![c] =
             IF rec.op = "handleSubmission"
             THEN \* saveToDataFile: the GET is not guarded, and it also reads the list
                  IF resp = "net" THEN Finish(rec, "thrown")
                  ELSE [sent EXCEPT !.list =
                          IF found
                          THEN [subs |-> Append(stored.subs, rec.sub), total |-> stored.total]
                          ELSE [subs |-> <<rec.sub>>, total |-> -1]]
             ELSE sent]
    /\ wev' = WriteEvent("token", c, cl[c].file, FALSE, FALSE, cl[c].puts, files[cl[c].file])
    /\ UNCHANGED <<files, images, succeeded, uploaded>>
    /\ UNCHANGED notWriteVars

\* The PUT of a JSON file settles.
PutResponse(c, ok) ==
    /\ cl[c].pc = "put"
    /\ LET rec      == cl[c]
           accepted == PutAccepted(FileSha(rec.file), rec.sent, ok)
           written  == [exists |-> TRUE, subs |-> rec.list.subs, total |-> rec.list.total]
       IN  /\ files' = IF accepted THEN [files EXCEPT ![rec.file] = written] ELSE files
           /\ cl' = [cl EXCEPT ![c] =
                 IF accepted THEN Finish([rec EXCEPT !.wrote = TRUE], "success")
                 ELSE IF OnPutRejected = "throw" THEN Finish(rec, "thrown")
                 ELSE [rec EXCEPT !.pc = "token", !.got = NoGet]]
           /\ succeeded' = IF accepted /\ rec.op \in {"saveSubmission", "submitAgentData"}
                           THEN succeeded \cup {rec.sub} ELSE succeeded
           /\ wev' = WriteEvent("put", c, rec.file, accepted, rec.sent # FileSha(rec.file),
                                rec.puts, files[rec.file])
    /\ UNCHANGED <<images, uploaded>>
    /\ UNCHANGED notWriteVars

\* uploadFile's GET for an image of uploadSubmissionImages settles, PUT sent.
ImgTokenResponse(c, ok) ==
    /\ cl[c].pc = "imgToken"
    /\ LET rec == cl[c]
           sha == IF ok THEN ImageSha(rec.path) ELSE Null
       IN  cl' = [cl EXCEPT ![c] =
                    [rec EXCEPT !.sha = sha, !.got = [file |-> rec.path, sha |-> sha],
                                !.sent = JsonPutToken(sha), !.pc = "imgPut", !.puts = 1]]
    /\ wev' = WriteEvent("imgToken", c, "", FALSE, FALSE, 0, AbsentFile)
    /\ UNCHANGED <<files, images, succeeded, uploaded>>
    /\ UNCHANGED notWriteVars

\* The PUT of an image settles.
ImgPutResponse(c, ok) ==
    /\ cl[c].pc = "imgPut"
    /\ LET rec      == cl[c]
           accepted == PutAccepted(ImageSha(rec.path), rec.sent, ok)
       IN  /\ images' = IF accepted THEN images \cup {rec.path} ELSE images
           /\ uploaded' = IF accepted
                          THEN uploaded \cup {[path |-> rec.path, id |-> rec.sub.id, op |-> rec.op]}
                          ELSE uploaded
           /\ cl' = [cl EXCEPT ![c] =
                 LET key  == Head(rec.imgs)
                     done == [rec EXCEPT !.tried = Append(@, key)]
                 IN  IF ~accepted /\ ImageFailureAborts(rec.op) THEN Finish(done, "thrown")
                     ELSE NextImage([done EXCEPT
                            !.imgs = Tail(@),
                            \* uploadImages: if (response.ok) imageUrls[key] = ...
                            !.imageUrls = IF accepted /\ rec.op = "handleSubmission"
                                          THEN (key :> RawUrl(rec.path)) @@ @
                                          ELSE @])]
           /\ wev' = WriteEvent("imgPut", c, "", accepted, FALSE, rec.puts, AbsentFile)
    /\ UNCHANGED <<files, succeeded>>
    /\ UNCHANGED notWriteVars

WriteOps == {"saveSubmission", "uploadSubmissionImages", "submitAgentData",
             "handleSubmission", "saveFileContent", "saveConfig"}

WriteInitState ==
    /\ files = [f \in JsonFiles |-> AbsentFile]
    /\ images = {}
    /\ cl = [c \in Clients |-> IdleClient]
    /\ succeeded = {}
    /\ uploaded = {}
    /\ wev = WriteEvent("none", "", "", FALSE, FALSE, 0, AbsentFile)

\* Clients of the repository, each running operations that write to it.
WriteNext ==
    \/ \E c \in Clients, op \in WriteOps, ts \in 1..MaxTime, n \in 0..MaxImages,
          flag \in BOOLEAN, rnd \in {"k3x"} : Begin(c, op, ts, n, flag, rnd)
    \/ \E c \in Clients, ok \in BOOLEAN : ReadResponse(c, ok)
    \/ \E c \in Clients, resp \in {"ok", "http", "net"} : TokenResponse(c, resp)
    \/ \E c \in Clients, ok \in BOOLEAN : PutResponse(c, ok)
    \/ \E c \in Clients, ok \in BOOLEAN : ImgTokenResponse(c, ok)
    \/ \E c \in Clients, ok \in BOOLEAN : ImgPutResponse(c, ok)

\* ------------------------------------------------------- the field-agent pages

UpperAlpha == "ABCDEFGHIJKLMNOPQRSTUVWXYZ"
LowerAlpha == "abcdefghijklmnopqrstuvwxyz"

LowerChar(ch) ==
    IF \E i \in 1..Len(UpperAlpha) : SubSeq(UpperAlpha, i, i) = ch
    THEN LET i == CHOOSE k \in 1..Len(UpperAlpha) : SubSeq(UpperAlpha, k, k) = ch
         IN  SubSeq(LowerAlpha, i, i)
    ELSE ch

\* String.prototype.toLowerCase
RECURSIVE ToLowerCase(_)
ToLowerCase(str) ==
    IF Len(str) = 0 THEN ""
    ELSE LowerChar(SubSeq(str, 1, 1)) \o ToLowerCase(SubSeq(str, 2, Len(str)))

\* The token the administrator stored with ConfigManager.saveConfig.
SecretToken == "ghp_secret"

\* getDefaultConfig / the literal loadConfig returns last: token: ''
DefaultConfig == [token |-> ""]

NoItem  == [set |-> FALSE, token |-> ""]
NoAgent == [scCode |-> "", fullName |-> "", password |-> "", status |-> ""]
NoInput == [scCode |-> "", fullName |-> "", password |-> ""]

AgentPool ==
    { [scCode |-> "SC1", fullName |-> "Ann", password |-> "pw",  status |-> "active"],
      [scCode |-> "SC1", fullName |-> "Ann", password |-> "pw",  status |-> "inactive"],
      [scCode |-> "sc1", fullName |-> "ANN", password |-> "pw2", status |-> "active"] }

AgentLists == UNION {[1..n -> AgentPool] : n \in 0..MaxAgents}

\* A predicate of find that does not look at the status.
AgentMatchesAnyStatus(a, scCode, fullName, password) ==
    /\ ToLowerCase(a.scCode) = ToLowerCase(scCode)
    /\ ToLowerCase(a.fullName) = ToLowerCase(fullName)
    /\ a.password = password

\* The predicate of agentsData.agents.find in authenticate.
AgentMatches(a, scCode, fullName, password) ==
    /\ ToLowerCase(a.scCode) = ToLowerCase(scCode)
    /\ ToLowerCase(a.fullName) = ToLowerCase(fullName)
    /\ a.password = password
    /\ a.status = "active"

\* Array.prototype.find: the first matching element, undefined when none.
FindAgent(agents, input) ==
    LET hits == {i \in 1..Len(agents) :
                    AgentMatches(agents[i], input.scCode, input.fullName, input.password)}
    IN  IF hits = {} THEN NoAgent
        ELSE agents[CHOOSE i \in hits : \A j \in hits : i <= j]

\* ConfigManager.loadConfig, given the response to its GET of gitconfig.json:
\* the configuration it returns and what it leaves in localStorage.
LoadConfigResult(resp) ==
    IF resp = "ok" /\ configFile.exists
    THEN [config |-> [token |-> configFile.token],
          item   |-> [set |-> TRUE, token |-> configFile.token]]
    ELSE IF resp # "net" /\ ls.ezeeAdminConfig.set
    THEN [config |-> [token |-> ls.ezeeAdminConfig.token], item |-> ls.ezeeAdminConfig]
    ELSE [config |-> DefaultConfig, item |-> ls.ezeeAdminConfig]

IdlePage == [pc |-> "idle", input |-> NoInput, config |-> DefaultConfig]

\* The administrator saves the GitHub configuration (ConfigManager.saveConfig).
AdminSaveConfig(tok) ==
    /\ configFile # [exists |-> TRUE, token |-> tok]
    /\ configFile' = [exists |-> TRUE, token |-> tok]
    /\ UNCHANGED <<agentsFile, ls, page, auth, returnedAgents>>
    /\ UNCHANGED notAgentVars

\* The administrator saves the agent list (saveAgentsToGitHub).
AdminSaveAgents(list) ==
    /\ agentsFile # [exists |-> TRUE, agents |-> list]
    /\ agentsFile' = [exists |-> TRUE, agents |-> list]
    /\ UNCHANGED <<configFile, ls, page, auth, returnedAgents>>
    /\ UNCHANGED notAgentVars

\* login.html: the form is submitted; with an empty field the handler alerts
\* and returns, otherwise authenticate starts with loadConfig.
LoginSubmit(scCode, fullName, password) ==
    /\ page.pc = "idle"
    /\ IF scCode = "" \/ fullName = "" \/ password = ""
       THEN page' = IdlePage
       ELSE page' = [pc |-> "loginConfig", config |-> DefaultConfig,
                     input |-> [scCode |-> scCode, fullName |-> fullName,
                                password |-> password]]
    /\ auth' = [kind |-> "none", agent |-> NoAgent, input |-> NoInput, read |-> << >>]
    /\ UNCHANGED <<configFile, agentsFile, ls, returnedAgents>>
    /\ UNCHANGED notAgentVars

\* submit.html: handleSubmission starts with loadConfig.
SubmitStart ==
    /\ page.pc = "idle"
    /\ page' = [IdlePage EXCEPT !.pc = "submitConfig"]
    /\ UNCHANGED <<configFile, agentsFile, ls, auth, returnedAgents>>
    /\ UNCHANGED notAgentVars

\* The GET of gitconfig.json issued by loadConfig settles.
ConfigResponse(resp) ==
    /\ page.pc \in {"loginConfig", "submitConfig"}
    /\ LET res == LoadConfigResult(resp) IN
       /\ ls' = [ls EXCEPT !.ezeeAdminConfig = res.item]
       /\ IF page.pc = "loginConfig"
          THEN IF res.config.token = ""
               THEN \* 'System configuration error. Please contact admin.'
                    /\ page' = [IdlePage EXCEPT !.config = res.config]
                    /\ auth' = [kind |-> "thrown", agent |-> NoAgent,
                                input |-> page.input, read |-> << >>]
               ELSE /\ page' = [page EXCEPT !.pc = "loginAgents", !.config = res.config]
                    /\ UNCHANGED auth
          ELSE /\ page' = [IdlePage EXCEPT !.config = res.config]
               /\ UNCHANGED auth
    /\ UNCHANGED <<configFile, agentsFile, returnedAgents>>
    /\ UNCHANGED notAgentVars

\* getFileContent('agents.json') settles: authenticate returns or throws and
\* the form handler stores the session when it got an agent.
AgentsResponse(ok) ==
    /\ page.pc = "loginAgents"
    /\ LET found == ok /\ agentsFile.exists
           agent == IF found THEN FindAgent(agentsFile.agents, page.input) ELSE NoAgent
       IN  /\ auth' = [kind  |-> IF found THEN "returned" ELSE "thrown",
                       agent |-> agent, input |-> page.input,
                       read  |-> IF found THEN agentsFile.agents ELSE << >>]
           /\ returnedAgents' = IF agent # NoAgent THEN returnedAgents \cup {agent}
                                ELSE returnedAgents
           /\ ls' = IF agent # NoAgent
                    THEN [ls EXCEPT !.agentLoggedIn = TRUE,
                                    !.agentInfo = [scCode |-> agent.scCode,
                                                   fullName |-> agent.fullName]]
                    ELSE ls
    /\ page' = [IdlePage EXCEPT !.config = page.config]
    /\ UNCHANGED <<configFile, agentsFile>>
    /\ UNCHANGED notAgentVars

AgentInitState ==
    /\ configFile = [exists |-> FALSE, token |-> ""]
    /\ agentsFile = [exists |-> FALSE, agents |-> << >>]
    /\ ls = [ezeeAdminConfig |-> NoItem, agentLoggedIn |-> FALSE,
             agentInfo |-> [scCode |-> "", fullName |-> ""]]
    /\ page = IdlePage
    /\ auth = [kind |-> "none", agent |-> NoAgent, input |-> NoInput, read |-> << >>]
    /\ returnedAgents = {}

\* One agent browser on login.html / submit.html, and the administrator
\* changing gitconfig.json and agents.json meanwhile.
AgentNext ==
    \/ \E tok \in {"", SecretToken} : AdminSaveConfig(tok)
    \/ \E list \in AgentLists : AdminSaveAgents(list)
    \/ \E scCode \in {"sc1", "SC2"}, fullName \in {"ann", "Bob"},
          password \in {"pw", "PW", ""} : LoginSubmit(scCode, fullName, password)
    \/ SubmitStart
    \/ \E resp \in {"ok", "http", "net"} : ConfigResponse(resp)
    \/ \E ok \in BOOLEAN : AgentsResponse(ok)

\* ------------------------------------------------------------ RealTimeService

\* The SHA of commit n as the refs API reports it.
CommitSha(n) == <<n>>

NoWrite == [op |-> "none", pc |-> "idle", commit |-> 0, accepted |-> FALSE]

RTEvent(op, fetched, old, result, tag) ==
    [op |-> op, fetched |-> fetched, old |-> old, result |-> result, tag |-> tag]

\* getBranchSHA: data.object.sha, null when the request fails.
GetBranchSHA(ok) == IF ok THEN CommitSha(rtHead) ELSE Null

\* A change test without the baseline test on lastKnownHash.
HasChangedNoBaseline(current, known) == current # Null /\ current # known

\* hasRepositoryChanged: what it returns for the fetched SHA.
HasChanged(current, known) ==
    current # Null /\ known # Null /\ current # known

\* hasRepositoryChanged: lastKnownHash after the call.
KnownAfterCheck(current, known) == IF current = Null THEN known ELSE current

\* uploadImage after its PUT succeeded: lastKnownHash is not assigned.
KnownAfterImage(known, commit) == known

\* saveFile after its PUT succeeded: this.lastKnownHash = data.commit.sha
KnownAfterSave(known, commit) == CommitSha(commit)

\* startRealTimePolling; the first poll() runs to its await.
RTStartPolling ==
    /\ ~rtPolling /\ rtPoll = "none"
    /\ rtPolling' = TRUE
    /\ rtPoll' = "sha"
    /\ rtEv' = RTEvent("start", Null, rtKnown, FALSE, "")
    /\ UNCHANGED <<rtHead, rtOwn, rtKnown, rtWrite>>
    /\ UNCHANGED notRTVars

RTStopPolling ==
    /\ rtPolling
    /\ rtPolling' = FALSE
    /\ rtEv' = RTEvent("stop", Null, rtKnown, FALSE, "")
    /\ UNCHANGED <<rtHead, rtOwn, rtKnown, rtPoll, rtWrite>>
    /\ UNCHANGED notRTVars

\* The timer fires and runs poll().
RTTimerFire ==
    /\ rtPoll = "timer"
    /\ rtPoll' = IF rtPolling THEN "sha" ELSE "none"
    /\ rtEv' = RTEvent("poll", Null, rtKnown, FALSE, "")
    /\ UNCHANGED <<rtHead, rtOwn, rtKnown, rtPolling, rtWrite>>
    /\ UNCHANGED notRTVars

\* getBranchSHA settles inside hasRepositoryChanged; poll goes on to fetch
\* submissions.json when the answer is true and to setTimeout otherwise.
RTCheckResponse(ok) ==
    /\ rtPoll = "sha"
    /\ LET current == GetBranchSHA(ok)
           changed == HasChanged(current, rtKnown)
       IN  /\ rtKnown' = KnownAfterCheck(current, rtKnown)
           /\ rtPoll' = IF changed THEN "subs" ELSE "timer"
           /\ rtEv' = RTEvent("check", current, rtKnown, changed, "")
    /\ UNCHANGED <<rtHead, rtOwn, rtPolling, rtWrite>>
    /\ UNCHANGED notRTVars

\* getFile('submissions.json') / getFile('agents.json') settles in poll; the
\* subscribers are notified when it gave a file.
RTFileResponse(found) ==
    /\ rtPoll \in {"subs", "agents"}
    /\ rtPoll' = IF rtPoll = "subs" THEN "agents" ELSE "timer"
    /\ rtEv' = RTEvent(IF found THEN "notify" ELSE "nofile", Null, rtKnown, FALSE,
                       IF rtPoll = "subs" THEN "submissions_updated"
                       ELSE "agents_updated")
    /\ UNCHANGED <<rtHead, rtOwn, rtKnown, rtPolling, rtWrite>>
    /\ UNCHANGED notRTVars

\* The instance calls saveFile or uploadImage; saveFile first GETs the file.
RTWriteStart(op) ==
    /\ rtWrite.pc = "idle"
    /\ rtWrite' = [NoWrite EXCEPT !.op = op,
                                  !.pc = IF op = "saveFile" THEN "get" ELSE "put"]
    /\ rtEv' = RTEvent(op, Null, rtKnown, FALSE, "")
    /\ UNCHANGED <<rtHead, rtOwn, rtKnown, rtPolling, rtPoll>>
    /\ UNCHANGED notRTVars

\* saveFile's GET settles and the PUT is sent.
RTGetResponse ==
    /\ rtWrite.pc = "get"
    /\ rtWrite' = [rtWrite EXCEPT !.pc = "put"]
    /\ rtEv' = RTEvent("get", Null, rtKnown, FALSE, "")
    /\ UNCHANGED <<rtHead, rtOwn, rtKnown, rtPolling, rtPoll>>
    /\ UNCHANGED notRTVars

\* The server handles the PUT: when it accepts, the branch gets a new commit.
RTPutServed(accepted) ==
    /\ rtWrite.pc = "put"
    /\ accepted => rtHead < MaxCommits
    /\ rtHead' = IF accepted THEN rtHead + 1 ELSE rtHead
    /\ rtOwn' = IF accepted THEN rtOwn \cup {rtHead + 1} ELSE rtOwn
    /\ rtWrite' = [rtWrite EXCEPT !.pc = "response", !.accepted = accepted,
                                  !.commit = IF accepted THEN rtHead + 1 ELSE 0]
    /\ rtEv' = RTEvent("served", Null, rtKnown, FALSE, "")
    /\ UNCHANGED <<rtKnown, rtPolling, rtPoll>>
    /\ UNCHANGED notRTVars

\* The response to the PUT reaches saveFile / uploadImage.
RTPutResponse ==
    /\ rtWrite.pc = "response"
    /\ rtKnown' = IF ~rtWrite.accepted THEN rtKnown
                  ELSE IF rtWrite.op = "saveFile"
                  THEN KnownAfterSave(rtKnown, rtWrite.commit)
                  ELSE KnownAfterImage(rtKnown, rtWrite.commit)
    /\ rtWrite' = [NoWrite EXCEPT !.op = rtWrite.op, !.accepted = rtWrite.accepted,
                                  !.commit = rtWrite.commit]
    /\ rtEv' = RTEvent(IF rtWrite.accepted THEN "written" ELSE "thrown", Null,
                       rtKnown, FALSE, "")
    /\ UNCHANGED <<rtHead, rtOwn, rtPolling, rtPoll>>
    /\ UNCHANGED notRTVars

\* Another client commits to the branch.
OtherCommit ==
    /\ rtHead < MaxCommits
    /\ rtHead' = rtHead + 1
    /\ rtEv' = RTEvent("other", Null, rtKnown, FALSE, "")
    /\ UNCHANGED <<rtOwn, rtKnown, rtPolling, rtPoll, rtWrite>>
    /\ UNCHANGED notRTVars

RTInitState ==
    /\ rtHead = 0
    /\ rtOwn = {}
    /\ rtKnown = Null
    /\ rtPolling = FALSE
    /\ rtPoll = "none"
    /\ rtWrite = NoWrite
    /\ rtEv = RTEvent("none", Null, Null, FALSE, "")

RTNext ==
    \/ RTStartPolling
    \/ RTStopPolling
    \/ RTTimerFire
    \/ \E ok \in BOOLEAN : RTCheckResponse(ok)
    \/ \E found \in BOOLEAN : RTFileResponse(found)
    \/ \E op \in {"saveFile", "uploadImage"} : RTWriteStart(op)
    \/ RTGetResponse
    \/ \E accepted \in BOOLEAN : RTPutServed(accepted)
    \/ RTPutResponse
    \/ OtherCommit

SyncInitState ==
    /\ repo = [f \in {"data.json", "agents.json"} |-> 0]
    /\ token = FALSE
    /\ isPolling = FALSE
    /\ lastKnownState = [f \in {"data.json", "agents.json"} |-> Null]
    /\ subscribers = << >>
    /\ nextReg = 0
    /\ removedCb = {}
    /\ timers = [c \in Chains |-> 0]
    /\ rounds = [c \in Chains |-> << >>]
    /\ ev = NoEvent

Init == SyncInitState /\ WriteInitState /\ AgentInitState /\ RTInitState

\* One DataSyncService with its subscribers: init, subscribe, startPolling
\* once, while other clients change, create and delete the tracked files.
NotifyNext ==
    \/ SyncInit
    \/ \E cb \in Callbacks : Subscribe(cb)
    \/ StartPolling(1)
    \/ TimerFire(1)
    \/ \E i \in 1..Len(rounds[1]), ok \in BOOLEAN : ShaResponse(1, i, ok)
    \/ \E i \in 1..Len(rounds[1]), ok \in BOOLEAN : BodyResponse(1, i, ok)
    \/ \E f \in {"data.json", "agents.json"}, v \in 0..MaxContent : RemoteChange(f, v)

NotifySpec == Init /\ [][NotifyNext]_vars

\* The subscriber list of one DataSyncService: subscribe and the returned
\* functions in any order, callbacks that throw, while data.json changes and
\* agents.json is created.
SubscriberNext ==
    \/ SyncInit
    \/ \E cb \in Callbacks : Subscribe(cb)
    \/ \E cb \in Callbacks : Unsubscribe(cb)
    \/ StartPolling(1)
    \/ TimerFire(1)
    \/ \E i \in 1..Len(rounds[1]), ok \in BOOLEAN : ShaResponse(1, i, ok)
    \/ \E i \in 1..Len(rounds[1]), ok \in BOOLEAN : BodyResponse(1, i, ok)
    \/ \E v \in 1..MaxContent : RemoteChange("data.json", v)
    \/ RemoteChange("agents.json", 1)

SubscriberSpec == Init /\ [][SubscriberNext]_vars

\* startPolling / stopPolling in any order, the timers and the rounds.
PollNext ==
    \/ SyncInit
    \/ \E c \in Chains : StartPolling(c)
    \/ StopPolling
    \/ \E c \in Chains : TimerFire(c)
    \/ \E c \in Chains : \E i \in 1..Len(rounds[c]), ok \in BOOLEAN : ShaResponse(c, i, ok)
    \/ \E c \in Chains : \E i \in 1..Len(rounds[c]), ok \in BOOLEAN : BodyResponse(c, i, ok)
    \/ \E f \in {"data.json", "agents.json"} : RemoteChange(f, 1)

PollSpec == Init /\ [][PollNext]_vars

WriteSpec == Init /\ [][WriteNext]_vars

AgentSpec == Init /\ [][AgentNext]_vars

RTSpec == Init /\ [][RTNext]_vars

\* A submission stored by an earlier, finished call.
Earlier == [id |-> GHId(0), by |-> "b", urls |-> NoUrls]

\* What submissions.json can hold when a call begins: nothing, the file as
\* saveSubmission writes it, the file as submitAgentData creates it.
StoredFiles ==
    {AbsentFile,
     [exists |-> TRUE, subs |-> <<Earlier>>, total |-> 1],
     [exists |-> TRUE, subs |-> <<Earlier>>, total |-> -1]}

SoloInit ==
    /\ SyncInitState /\ AgentInitState /\ RTInitState
    /\ \E stored \in StoredFiles :
          files = [f \in JsonFiles |->
                     IF f = "submissions.json" THEN stored ELSE AbsentFile]
    /\ images = {}
    /\ cl = [c \in Clients |-> IdleClient]
    /\ succeeded = {}
    /\ uploaded = {}
    /\ wev = WriteEvent("none", "", "", FALSE, FALSE, 0, AbsentFile)

\* One client saving submissions, nobody else writing to the repository.
SoloNext ==
    \/ \E op \in {"saveSubmission", "submitAgentData"}, ts \in 1..MaxTime,
          n \in 0..MaxImages, flag \in BOOLEAN : Begin("a", op, ts, n, flag, "k3x")
    \/ \E ok \in BOOLEAN : ReadResponse("a", ok)
    \/ \E resp \in {"ok", "http", "net"} : TokenResponse("a", resp)
    \/ \E ok \in BOOLEAN : PutResponse("a", ok)
    \/ \E ok \in BOOLEAN : ImgPutResponse("a", ok)

SoloSpec == SoloInit /\ [][SoloNext]_vars

\* Weak fairness of what the browser guarantees: a pending timer fires and a
\* pending fetch settles.
FairPollSpec ==
    /\ PollSpec
    /\ \A c \in Chains : WF_vars(TimerFire(c))
    /\ \A c \in Chains : WF_vars(\E i \in 1..Len(rounds[c]), ok \in BOOLEAN : ShaResponse(c, i, ok))
    /\ \A c \in Chains : WF_vars(\E i \in 1..Len(rounds[c]), ok \in BOOLEAN : BodyResponse(c, i, ok))

\* The admin dashboard with every fetch succeeding, while other clients
\* commit new versions of the tracked files.
DashboardNext ==
    \/ DashboardInit("cbA")
    \/ TimerFire(1)
    \/ \E i \in 1..Len(rounds[1]) : ShaResponse(1, i, TRUE)
    \/ \E i \in 1..Len(rounds[1]) : BodyResponse(1, i, TRUE)
    \/ \E f \in {"data.json", "agents.json"}, v \in 1..MaxContent : RemoteChange(f, v)

FairDashboardSpec ==
    /\ Init /\ [][DashboardNext]_vars
    /\ WF_vars(TimerFire(1))
    /\ WF_vars(\E i \in 1..Len(rounds[1]) : ShaResponse(1, i, TRUE))
    /\ WF_vars(\E i \in 1..Len(rounds[1]) : BodyResponse(1, i, TRUE))

\* ------------------------------------------------------------------ claims

RegisteredRegs == {subscribers[i].reg : i \in 1..Len(subscribers)}

BodyFetchPending(c, file) ==
    \E i \in 1..Len(rounds[c]) :
        rounds[c][i].pc = "body" /\ TrackedFiles[rounds[c][i].file] = file

\* C1: in checkForChanges, when the fetched SHA of a tracked file is non-null
\* and differs from the last-seen one, the last-seen SHA becomes the fetched
\* SHA and the body fetch is issued; when the body arrives every registration
\* present in the subscriber list is invoked exactly once with (body, tag),
\* the tag being 'submissions_updated' for data.json and 'agents_updated' for
\* agents.json.
C1_ChangedShaNotifiesAll ==
    /\ (ev.op = "sha" /\ ev.sha # Null /\ ev.sha # ev.old) =>
           /\ lastKnownState[ev.file] = ev.sha
           /\ BodyFetchPending(ev.chain, ev.file)
    /\ ev.op = "notify" =>
           /\ \A r \in RegisteredRegs :
                  Cardinality({i \in 1..Len(ev.calls) : ev.calls[i].reg = r}) = 1
           /\ \A i \in 1..Len(ev.calls) :
                  /\ ev.calls[i].reg \in RegisteredRegs
                  /\ ev.calls[i].data = ev.body
                  /\ ev.calls[i].type = (IF ev.file = "data.json"
                                         THEN "submissions_updated"
                                         ELSE "agents_updated")
           /\ ev.file \in {"data.json", "agents.json"}

C1_Witness ==
    /\ ev.op = "notify" /\ ev.file = "agents.json"
    /\ Len(ev.calls) >= 2 /\ ev.body # NullBody

\* C2: when the fetched SHA equals the last-seen SHA of the file, the
\* last-seen SHA stays as it was, no body fetch is issued and no subscriber is
\* invoked; a notification happens only for a SHA that differed.
C2_SameShaNoEffect ==
    /\ (ev.op = "sha" /\ ev.sha = ev.old) =>
           /\ lastKnownState[ev.file] = ev.old
           /\ ~BodyFetchPending(ev.chain, ev.file)
           /\ ev.calls = << >>
    /\ ev.op = "notify" => ev.sha # ev.old

C2_Witness ==
    /\ ev.op = "sha" /\ ev.sha = ev.old /\ ev.sha # Null
    /\ Len(subscribers) > 0

\* C3: notifySubscribers calls the callbacks in the order of their
\* registration, whatever subscribe and unsubscribe calls came before: the
\* subscriber list is always ordered by registration, and the calls of one
\* notification follow that list.
C3_RegistrationOrder ==
    /\ \A i, j \in 1..Len(subscribers) :
           i < j => subscribers[i].reg < subscribers[j].reg
    /\ ev.op = "notify" =>
           /\ Len(ev.calls) = Len(subscribers)
           /\ \A i \in 1..Len(ev.calls) : ev.calls[i].reg = subscribers[i].reg
           /\ \A i, j \in 1..Len(ev.calls) :
                  i < j => ev.calls[i].reg < ev.calls[j].reg

\* Three registrations were made, one callback was unsubscribed, and the two
\* remaining ones are notified.
C3_Witness ==
    /\ ev.op = "notify" /\ nextReg = 3 /\ Len(ev.calls) = 2

\* C10: within one polling chain the next round is scheduled only once the
\* current round has completed (a chain never has a round in flight together
\* with a pending timer or a second round), a completed round leaves a timer
\* pending, and a pending timer leads to the next round unless polling was
\* stopped.
C10_FixedDelay ==
    /\ [](\A c \in Chains : Len(rounds[c]) + timers[c] <= 1)
    /\ [][\A c \in Chains :
            (Len(rounds[c]) > 0 /\ Len(rounds'[c]) = 0) => timers'[c] = 1]_vars
    /\ \A c \in Chains :
          (timers[c] > 0) ~> (Len(rounds[c]) > 0 \/ ~isPolling)

\* A round of a chain has completed and its successor is in flight.
C10_Witness ==
    \E c \in Chains : ev.op = "poll" /\ ev.chain = c /\ Len(rounds[c]) = 1

HasPrefix(str, prefix) ==
    Len(str) >= Len(prefix) /\ SubSeq(str, 1, Len(prefix)) = prefix

\* The file or image a client's pending PUT writes.
PutTarget(c) == IF cl[c].pc = "put" THEN cl[c].file ELSE cl[c].path

\* C4 as stated: every PUT in flight, image uploads included, was directly
\* preceded by a GET of the file it writes and carries the SHA that GET gave.
C4_EveryPutAfterTokenFetch ==
    \A c \in Clients :
        cl[c].pc \in {"put", "imgPut"} =>
            /\ cl[c].got.file = PutTarget(c)
            /\ cl[c].sent = cl[c].got.sha

\* C4, amended: a PUT of a JSON file (uploadFile, saveFileContent, saveFile,
\* saveConfig, saveToDataFile) and an image PUT made through uploadFile follow
\* directly on a GET of the same file and carry the SHA that GET returned
\* (none when it found no file or failed), that SHA being the stored one at
\* the time of the GET; the image PUTs of RealTimeService.uploadImage and
\* EnhancedSubmissionHandler.uploadImages are sent with no GET before them and
\* with no SHA.
C4_JsonPutAfterTokenFetch ==
    /\ \A c \in Clients :
          /\ cl[c].pc = "put" =>
                /\ cl[c].got.file = cl[c].file
                /\ cl[c].sent = cl[c].got.sha
          /\ (cl[c].pc = "imgPut" /\ cl[c].op = "uploadSubmissionImages") =>
                /\ cl[c].got.file = cl[c].path
                /\ cl[c].sent = cl[c].got.sha
          /\ (cl[c].pc = "imgPut" /\ cl[c].op # "uploadSubmissionImages") =>
                /\ cl[c].got = NoGet
                /\ cl[c].sent = Null
    /\ (wev.op = "token" /\ cl[wev.client].pc = "put") =>
          cl[wev.client].got.sha \in {Null, FileSha(wev.file)}

\* A PUT of submissions.json carrying the SHA of the stored file is in flight.
C4_Witness ==
    \E c \in Clients :
        /\ cl[c].pc = "put" /\ cl[c].op = "submitAgentData"
        /\ cl[c].sent # Null /\ cl[c].sent = FileSha(cl[c].file)

\* C5: one call of a JSON writer sends at most one PUT, and when that PUT is
\* rejected the call ends by throwing and the stored file stays as it was.
C5_NoRetry ==
    /\ \A c \in Clients : cl[c].puts <= 1
    /\ (wev.op = "put" /\ ~wev.accepted) =>
          /\ cl[wev.client].pc = "idle"
          /\ cl[wev.client].outcome = "thrown"
          /\ cl[wev.client].puts = 1
          /\ files[wev.file] = wev.before

\* A PUT was rejected because another client's write landed after the token
\* was fetched.
C5_Witness ==
    /\ wev.op = "put" /\ ~wev.accepted /\ wev.stale
    /\ wev.before.exists
    /\ \E i \in 1..Len(wev.before.subs) : wev.before.subs[i].by # wev.client

\* C6 as stated: once every save has completed, each submission whose save
\* returned success is in submissions.json.
C6_NoLostSubmission ==
    (\A c \in Clients : cl[c].pc = "idle") =>
        \A sub \in succeeded :
            \E i \in 1..Len(files["submissions.json"].subs) :
                files["submissions.json"].subs[i] = sub

\* C9 as stated: every image stored for a submission lies under
\* images/submissions/<submissionId>/.
C9_ImagesUnderSubmissionId ==
    \A u \in uploaded :
        /\ u.id # ""
        /\ HasPrefix(u.path, "images/submissions/" \o u.id \o "/")

\* C7 as stated: on the field-agent pages the token is neither in the agent
\* browser's localStorage item 'ezeeAdminConfig' nor in a configuration object
\* loaded there.
C7_TokenNotInAgentBrowser ==
    /\ ls.ezeeAdminConfig.token = ""
    /\ page.config.token = ""

\* C8: authenticate returns an agent record only if the agents.json it read
\* holds that record, its SC code and full name equal the entered ones up to
\* case, its password equals the entered one exactly and its status is
\* 'active'; and 'agentLoggedIn' is in localStorage only once authenticate
\* has returned such a record, the one 'agentInfo' names.
C8_LoginOnlyActiveMatch ==
    /\ auth.agent # NoAgent =>
          /\ auth.kind = "returned"
          /\ \E i \in 1..Len(auth.read) : auth.read[i] = auth.agent
          /\ ToLowerCase(auth.agent.scCode) = ToLowerCase(auth.input.scCode)
          /\ ToLowerCase(auth.agent.fullName) = ToLowerCase(auth.input.fullName)
          /\ auth.agent.password = auth.input.password
          /\ auth.agent.status = "active"
    /\ \A a \in returnedAgents : a.status = "active"
    /\ ls.agentLoggedIn =>
          \E a \in returnedAgents :
              a.scCode = ls.agentInfo.scCode /\ a.fullName = ls.agentInfo.fullName

\* A login succeeded with an SC code and a name typed in another case than
\* stored, while agents.json also held an inactive record of the same agent.
C8_Witness ==
    /\ ls.agentLoggedIn /\ auth.agent # NoAgent
    /\ auth.agent.scCode # auth.input.scCode
    /\ auth.agent.fullName # auth.input.fullName
    /\ \E i \in 1..Len(auth.read) : auth.read[i].status = "inactive"

\* C11 as stated: with polling active, the dashboard subscribed and every
\* fetch succeeding, if data.json ends up holding some content for good, the
\* subscriber is at some point notified with 'submissions_updated' carrying
\* that content.
C11_FinalContentNotified ==
    \A v \in 1..MaxContent :
        <>[](repo["data.json"] = v /\ isPolling /\ Len(subscribers) > 0)
            => <>(/\ ev.op = "notify" /\ ev.file = "data.json"
                  /\ ev.body = v /\ Len(ev.calls) > 0
                  /\ ev.calls[1].type = "submissions_updated")

\* C12: handleSubmission returns success only when its PUT of data.json was
\* accepted, the stored data.json then holding the submission; when there is
\* no token, validation fails or the write of data.json fails it throws, and
\* handleSubmit shows the error dialog and re-enables the submit button.
C12_SuccessOnlyAfterWrite ==
    /\ \A c \in Clients :
          (cl[c].op = "handleSubmission" /\ cl[c].pc = "idle") =>
              /\ cl[c].outcome \in {"success", "thrown"}
              /\ cl[c].outcome = "success" <=> cl[c].wrote
              /\ cl[c].outcome = "success" => cl[c].dialog = "success"
              /\ cl[c].outcome = "thrown" =>
                    cl[c].dialog = "error" /\ ~cl[c].btnDisabled
    /\ (wev.op = "put" /\ cl[wev.client].op = "handleSubmission") =>
          IF wev.accepted
          THEN /\ cl[wev.client].outcome = "success"
               /\ \E i \in 1..Len(files["data.json"].subs) :
                      files["data.json"].subs[i] = cl[wev.client].sub
          ELSE cl[wev.client].outcome = "thrown"
    /\ (wev.op = "token" /\ cl[wev.client].op = "handleSubmission"
           /\ cl[wev.client].pc = "idle") => cl[wev.client].outcome = "thrown"

\* A handleSubmission whose PUT of data.json was rejected has thrown, while
\* the other client's handleSubmission succeeded.
C12_Witness ==
    /\ wev.op = "put" /\ ~wev.accepted /\ wev.file = "data.json"
    /\ cl[wev.client].op = "handleSubmission" /\ cl[wev.client].outcome = "thrown"
    /\ \E c \in Clients : cl[c].op = "handleSubmission" /\ cl[c].outcome = "success"

\* C13 as stated: whatever startPolling and stopPolling calls were made, at
\* most one polling chain (a pending timer or a round in flight) is alive.
C13_AtMostOneChain ==
    Cardinality({c \in Chains : AliveChain(c)}) <= 1

\* C14: while polling is stopped no new round starts and no chain grows (a
\* round in flight may complete and leaves one timer, a timer that fires
\* leaves nothing), and if polling stays stopped every chain ends: in the end
\* no timer is pending and no round is in flight.
C14_StoppedChainEnds ==
    /\ [][(~isPolling /\ ~isPolling') =>
            \A c \in Chains :
               /\ Len(rounds'[c]) <= Len(rounds[c])
               /\ timers'[c] + Len(rounds'[c]) <= timers[c] + Len(rounds[c])
               /\ timers'[c] < timers[c] => Len(rounds'[c]) = Len(rounds[c])]_vars
    /\ (<>[](~isPolling)) => <>[](\A c \in Chains : ~AliveChain(c))

\* After stopPolling, a round that was in flight completed and notified, or
\* the timer it left fired and found polling stopped.
C14_Witness ==
    /\ ~isPolling
    /\ ev.op = "pollStopped"
    /\ \A c \in Chains : ~AliveChain(c)

\* C15: when callbacks throw inside notifySubscribers, every registered
\* callback is still called, in registration order and with the same
\* (data, type); nothing propagates, so the round goes on to the next tracked
\* file (or ends and leaves the timer of the next round), and the last-seen
\* SHA stays the one recorded before the body fetch.
C15_ThrowingSubscriberIsolated ==
    (ev.op = "notify" /\ ev.threw # {}) =>
        /\ Len(ev.calls) = Len(subscribers)
        /\ \A i \in 1..Len(ev.calls) :
              /\ ev.calls[i].reg = subscribers[i].reg
              /\ ev.calls[i].cb = subscribers[i].cb
              /\ ev.calls[i].data = ev.body
              /\ ev.calls[i].type = TagOf(ev.file)
        /\ lastKnownState[ev.file] = ev.sha
        /\ IF ev.file = "data.json"
           THEN \E i \in 1..Len(rounds[ev.chain]) :
                    /\ rounds[ev.chain][i].pc = "sha"
                    /\ TrackedFiles[rounds[ev.chain][i].file] = "agents.json"
           ELSE timers[ev.chain] > 0

\* The first of two registered callbacks threw on a data.json notification.
C15_Witness ==
    /\ ev.op = "notify" /\ ev.file = "data.json"
    /\ Len(ev.calls) = 2
    /\ ev.calls[1].cb \in ev.threw /\ ev.calls[2].cb \notin ev.threw

\* C16 as stated: calling the function a subscribe call returned removes that
\* call's registration and nothing else: the others, further registrations of
\* the same callback included, stay in their order, and a second call changes
\* nothing.
C16_UnsubscribeOnlyOwn ==
    [][ev'.op = "unsubscribe" =>
          subscribers' = SelectSeq(subscribers, LAMBDA s : s.reg # ev'.reg)]_vars

\* C17: when getFileSHA gives null for a tracked file (the fetch failed or the
\* file does not exist), the last-seen SHA of the file stays, no body fetch is
\* issued and nobody is called, also when the file was seen before and is now
\* deleted; after data.json the same round goes on to check agents.json, and
\* a notification is only ever made for a SHA that is not null.
C17_NullShaIgnored ==
    /\ (ev.op = "sha" /\ ev.sha = Null) =>
          /\ lastKnownState[ev.file] = ev.old
          /\ ~BodyFetchPending(ev.chain, ev.file)
          /\ ev.calls = << >>
          /\ ev.file = "data.json" =>
                \E i \in 1..Len(rounds[ev.chain]) :
                    /\ rounds[ev.chain][i].pc = "sha"
                    /\ TrackedFiles[rounds[ev.chain][i].file] = "agents.json"
    /\ ev.op = "notify" => ev.sha # Null

\* data.json was seen, then deleted, and the SHA fetch of a later round came
\* back null while a subscriber was registered.
C17_Witness ==
    /\ ev.op = "sha" /\ ev.file = "data.json" /\ ev.sha = Null
    /\ ev.old # Null /\ repo["data.json"] = 0
    /\ Len(subscribers) > 0

\* Rounds waiting for the body of file f.
NumBody(rs, f) ==
    Cardinality({p \in Chains \X (1..MaxChains + 1) :
                    /\ p[2] <= Len(rs[p[1]])
                    /\ rs[p[1]][p[2]].pc = "body"
                    /\ TrackedFiles[rs[p[1]][p[2]].file] = f})

\* C18: a SHA is recorded as last seen, and its body fetched, only when it
\* differs from the last-seen one, and each SHA so recorded ends in exactly one
\* notification, with null data when the body fetch fails; at that
\* notification the recorded SHA is still the last-seen one, so later polls
\* that find the same SHA deliver nothing.
C18_OneNotificationPerSha ==
    /\ [](ev.op = "notify" =>
            /\ ev.sha # Null /\ ev.sha # ev.old
            /\ lastKnownState[ev.file] = ev.sha
            /\ Len(ev.calls) = Len(subscribers)
            /\ \A i \in 1..Len(ev.calls) : ev.calls[i].data = ev.body)
    /\ [][\A f \in {"data.json", "agents.json"} :
            /\ NumBody(rounds', f) < NumBody(rounds, f) =>
                  /\ ev'.op = "notify" /\ ev'.file = f
                  /\ NumBody(rounds', f) = NumBody(rounds, f) - 1
            /\ NumBody(rounds', f) > NumBody(rounds, f) =>
                  /\ ev'.op = "sha" /\ ev'.file = f
                  /\ ev'.sha # lastKnownState[f] /\ ev'.sha = lastKnownState'[f]
                  /\ NumBody(rounds', f) = NumBody(rounds, f) + 1
            /\ lastKnownState'[f] # lastKnownState[f] =>
                  NumBody(rounds', f) = NumBody(rounds, f) + 1]_vars

\* The body fetch of an existing file failed and the subscribers were called
\* with null data.
C18_Witness ==
    /\ ev.op = "notify" /\ ev.body = NullBody /\ repo[ev.file] # 0
    /\ Len(ev.calls) > 0 /\ BlobSha(repo[ev.file]) = lastKnownState[ev.file]

\* C19: hasRepositoryChanged returns true exactly when the branch SHA was
\* fetched, a SHA was recorded before and the two differ (so the first SHA
\* fetched only sets the baseline); after a call that fetched the SHA,
\* lastKnownHash is that SHA, and after a call whose fetch failed the result
\* is false and lastKnownHash is what it was.
C19_ChangedIffDiffers ==
    rtEv.op = "check" =>
        /\ rtEv.result <=>
              (rtEv.fetched # Null /\ rtEv.old # Null /\ rtEv.fetched # rtEv.old)
        /\ rtEv.old = Null => ~rtEv.result
        /\ rtEv.fetched # Null => rtKnown = rtEv.fetched
        /\ rtEv.fetched = Null => (~rtEv.result /\ rtKnown = rtEv.old)
        /\ rtEv.result <=> rtPoll = "subs"

\* The first successful fetch set the baseline and returned false although the
\* branch already had commits.
C19_Witness ==
    /\ rtEv.op = "check" /\ rtEv.old = Null /\ rtEv.fetched # Null
    /\ ~rtEv.result /\ rtHead > 0 /\ rtKnown = CommitSha(rtHead)

\* The commits after the one with SHA old, up to the one with SHA fetched.
CommitsBetween(old, fetched) ==
    {n \in 1..MaxCommits + 1 : old[1] < n /\ n <= fetched[1]}

\* C20 as stated: a RealTimeService instance reports a change only when a
\* commit that it did not make itself, through saveFile or uploadImage, came
\* between the last-known commit and the one the poll fetched.
C20_OwnWritesNotReported ==
    (rtEv.op = "check" /\ rtEv.result) =>
        \E n \in CommitsBetween(rtEv.old, rtEv.fetched) : n \notin rtOwn

\* The step is client c's PUT of file f settling with the write accepted.
AcceptedPut(c, f) ==
    /\ cl[c].pc = "put" /\ cl[c].file = f /\ cl'[c].pc # "put"
    /\ wev'.op = "put" /\ wev'.client = c /\ wev'.accepted

\* C21 as stated: saveSubmission appends the new submission to the list it
\* read (the stored one, or the empty one when the read found nothing) and
\* writes that list with totalSubmissions equal to its length; and whatever
\* saveSubmission and submitAgentData wrote, the stored submissions.json has
\* totalSubmissions equal to the length of its submissions.
C21_TotalMatchesLength ==
    /\ [](files["submissions.json"].exists =>
            files["submissions.json"].total = Len(files["submissions.json"].subs))
    /\ [][\A c \in Clients :
            /\ (cl[c].pc = "read" /\ cl'[c].pc = "token"
                   /\ cl[c].op = "saveSubmission") =>
                  /\ cl'[c].list.subs \in
                        {Append(files["submissions.json"].subs, cl[c].sub), <<cl[c].sub>>}
                  /\ cl'[c].list.total = Len(cl'[c].list.subs)
            /\ (AcceptedPut(c, "submissions.json") /\ cl[c].op = "saveSubmission") =>
                  /\ files'["submissions.json"].subs = cl[c].list.subs
                  /\ files'["submissions.json"].total = Len(cl[c].list.subs)]_vars

\* C22 as stated: with one client and nobody else writing, an accepted write
\* of submissions.json by saveSubmission or submitAgentData stores the list
\* that was stored just before with the new submission appended, whatever the
\* outcome of the read that preceded it.
C22_SaveKeepsStored ==
    [][AcceptedPut("a", "submissions.json") =>
          files'["submissions.json"].subs =
              Append(files["submissions.json"].subs, cl["a"].sub)]_vars

====
